---------------------------- MODULE Spec2Model ----------------------------
(***************************************************************************)
(* A model of djboulia/apiserver: the two object-store adapters (the local *)
(* file store FileDB and the remote scan store DynamoModel over            *)
(* DynomoImpl) and the route layer (ModelServer over ReactServer).         *)
(***************************************************************************)
EXTENDS Integers, Sequences, FiniteSets, TLC

(***************************************************************************)
(* Bounds of the model.                                                    *)
(***************************************************************************)
\* the number of records a table holds at most
MaxRecords == 2
\* the wall clock runs from 1 to MaxClock milliseconds
MaxClock == 2
\* the number of uuids the remote adapter draws at most
MaxUuid == 2

(***************************************************************************)
(* JavaScript values.  A value is a record [t, v]: t is the type tag that  *)
(* typeof reports and v the text of the value, so that the number 1 and    *)
(* the string "1" are different values with the same text.                *)
(***************************************************************************)
Num(s) == [t |-> "number", v |-> s]
Str(s) == [t |-> "string", v |-> s]
Bool(s) == [t |-> "boolean", v |-> s]
Undefined == [t |-> "undefined", v |-> ""]
JsTrue == Bool("true")
JsFalse == Bool("false")

\* the texts that ToNumber reads as a number (the canonical decimals of the model)
NumericText == {"1", "2", "3", "4", "5", "6", "7", "8", "9"}

\* x === y: same type and same value
StrictEq(x, y) == x = y

\* x == y: the abstract equality of JavaScript on the value kinds of the
\* model: same type compares the values; a number and a string compare after
\* ToNumber of the string; a boolean is converted to a number first;
\* undefined equals only undefined (and null, which the model does not hold).
LooseEq(x, y) ==
    IF x.t = y.t THEN x.v = y.v
    ELSE IF {x.t, y.t} = {"number", "string"} THEN x.v = y.v /\ x.v \in NumericText
    ELSE IF x.t = "boolean" /\ y.t \in {"number", "string"}
         THEN (IF x.v = "true" THEN "1" ELSE "0") = y.v
    ELSE IF y.t = "boolean" /\ x.t \in {"number", "string"}
         THEN (IF y.v = "true" THEN "1" ELSE "0") = x.v
    ELSE FALSE

\* !x
Falsy(x) ==
    \/ x.t = "undefined"
    \/ x.t = "boolean" /\ x.v = "false"
    \/ x.t = "string" /\ x.v = ""
    \/ x.t = "number" /\ x.v = "0"

(***************************************************************************)
(* Objects are functions from property names to values.                    *)
(***************************************************************************)
EmptyObj == [k \in {} |-> Undefined]

\* obj[name]: undefined when the object has no such property
Get(obj, name) == IF name \in DOMAIN obj THEN obj[name] ELSE Undefined

\* obj[name] = value
SetKey(obj, name, value) ==
    [k \in DOMAIN obj \cup {name} |-> IF k = name THEN value ELSE obj[k]]

\* delete obj[name]
DeleteKey(obj, name) == [k \in DOMAIN obj \ {name} |-> obj[k]]

\* JSON.parse(JSON.stringify(obj)): a fresh object without the properties
\* whose value is undefined
copy(obj) == [k \in {n \in DOMAIN obj : obj[n].t # "undefined"} |-> obj[k]]

\* Date.getTime().toString() of the model's clock values
TimeToString(n) == <<"1", "2", "3", "4", "5", "6", "7", "8", "9">>[n]

\* the uuids uuidv4() draws, in the order drawn
Uuid(n) == <<"u1", "u2", "u3", "u4", "u5", "u6", "u7", "u8", "u9">>[n]


(***************************************************************************)
(* What a promise settles with.  kind is "resolve", "reject" or           *)
(* "uncaught" (an exception thrown in a callback: the promise never       *)
(* settles); shape tells how to read val, which is always a sequence:     *)
(* one object or value, or the elements of an array.                      *)
(***************************************************************************)
Resolve(shape, val) == [kind |-> "resolve", shape |-> shape, val |-> val]
Reject(shape, val) == [kind |-> "reject", shape |-> shape, val |-> val]
Uncaught(msg) == [kind |-> "uncaught", shape |-> "error", val |-> <<Str(msg)>>]
NoResponse == [kind |-> "none", shape |-> "undefined", val |-> <<>>]

\* the error object a failed backend call hands to its callback
BackendErr == Str("backend error")

Min(S) == CHOOSE m \in S : \A n \in S : m <= n

\* seq without its i-th element: Array.splice(i, 1)
Splice(seq, i) == [j \in 1..(Len(seq) - 1) |-> IF j < i THEN seq[j] ELSE seq[j + 1]]

\* seq with elem put in at position i, the later elements moved up
InsertAt(seq, i, elem) ==
    [j \in 1..(Len(seq) + 1) |-> IF j < i THEN seq[j] ELSE IF j = i THEN elem ELSE seq[j - 1]]

(***************************************************************************)
(* FileDB, the local file adapter.  cs is the in-memory table `contents`,  *)
(* a sequence of records {id, class, ...fields}; fl is the parsed content  *)
(* of the durable file.  A mutation returns [contents, file, resp].        *)
(***************************************************************************)

\* JSON.stringify(contents) as read back from the file
Serialize(cs) == [i \in DOMAIN cs |-> copy(cs[i])]

\* a variant that asks for some field to match instead of all of them
fieldsMatch_someField(record, fields) ==
    \E name \in DOMAIN fields : LooseEq(fields[name], Get(record, name))

\* fieldsMatch: false as soon as an own property of fields differs under !=
fieldsMatch(record, fields) ==
    ~ \E name \in DOMAIN fields : ~LooseEq(fields[name], Get(record, name))

\* findById(id, records): the first record whose id is id, else undefined
findByIdIn(id, records) ==
    LET hits == {i \in DOMAIN records : StrictEq(Get(records[i], "id"), id)}
    IN IF hits = {} THEN Undefined ELSE records[Min(hits)]

\* rewriteDB: contents = newContents, then the file is overwritten unless
\* fs.writeFile reports an error (werr)
rewriteDB(newContents, fl, werr, value) ==
    [contents |-> newContents,
     file |-> IF werr THEN fl ELSE Serialize(newContents),
     resp |-> IF werr THEN Reject("error", <<BackendErr>>) ELSE value]

\* a variant that keeps the id of the entry data when it has one
FileDB_create_keepsCallerId(cs, fl, className, entryData, time, werr) ==
    LET id == IF "id" \in DOMAIN entryData THEN entryData.id ELSE Str(TimeToString(time))
        entry == SetKey(SetKey(copy(entryData), "id", id), "class", Str(className))
    IN rewriteDB(Append(cs, entry), fl, werr, Resolve("object", <<entry>>))

FileDB_create(cs, fl, className, entryData, time, werr) ==
    LET id == TimeToString(time)
        entry == SetKey(SetKey(copy(entryData), "id", Str(id)), "class", Str(className))
    IN rewriteDB(Append(cs, entry), fl, werr, Resolve("object", <<entry>>))

FileDB_put(cs, fl, className, updateEntry, werr) ==
    LET hits == {i \in DOMAIN cs : StrictEq(Get(cs[i], "id"), Get(updateEntry, "id"))}
    IN IF hits = {}
       THEN [contents |-> cs, file |-> fl,
             resp |-> Reject("string", <<Str("could not find id")>>)]
       ELSE LET i == Min(hits)
            IN IF ~LooseEq(Get(cs[i], "class"), Str(className))
               THEN [contents |-> cs, file |-> fl,
                     resp |-> Reject("string", <<Str("put: ids match but class not equal")>>)]
               ELSE rewriteDB([cs EXCEPT ![i] = copy(updateEntry)], fl, werr,
                              Resolve("object", <<updateEntry>>))

FileDB_findAll(cs, className) ==
    LET items == Serialize(cs)
        IsClass(item) == StrictEq(Get(item, "class"), Str(className))
    IN Resolve("array", SelectSeq(items, IsClass))

FileDB_findByIds(cs, className, ids) ==
    LET records == FileDB_findAll(cs, className).val
    IN Resolve("array", [i \in DOMAIN ids |-> findByIdIn(ids[i], records)])

FileDB_findById(cs, className, id) ==
    LET hits == {i \in DOMAIN cs : /\ StrictEq(Get(cs[i], "id"), id)
                                   /\ StrictEq(Get(cs[i], "class"), Str(className))}
    IN IF hits = {}
       THEN Reject("string", <<Str("could not find id")>>)
       ELSE Resolve("object", <<copy(cs[Min(hits)])>>)

FileDB_findByFields(cs, className, fields) ==
    LET results == FileDB_findAll(cs, className).val
        Matches(result) == fieldsMatch(result, fields)
    IN Resolve("array", SelectSeq(results, Matches))

FileDB_deleteById(cs, fl, className, key, werr) ==
    LET hits == {i \in DOMAIN cs : /\ StrictEq(Get(cs[i], "id"), key)
                                   /\ StrictEq(Get(cs[i], "class"), Str(className))}
    IN IF hits = {}
       THEN [contents |-> cs, file |-> fl, resp |-> Reject("boolean", <<JsFalse>>)]
       ELSE rewriteDB(Splice(cs, Min(hits)), fl, werr, Resolve("boolean", <<JsTrue>>))

(***************************************************************************)
(* The DynamoDB table behind DynomoImpl.  tb is the table, a sequence of   *)
(* items [id, className, attributes] in storage order, which is the order  *)
(* a scan returns them in; the key is id.  aerr says that the service      *)
(* answers the call with an error.                                         *)
(***************************************************************************)
NoItem == [id |-> Undefined, className |-> Undefined, attributes |-> EmptyObj]

KeyIndex(tb, key) == {i \in DOMAIN tb : tb[i].id = key}

\* client.put: an unconditional write; a new key lands at position pos of
\* the storage order, an existing key is replaced where it is
clientPut(tb, item, pos) ==
    IF KeyIndex(tb, item.id) = {}
    THEN InsertAt(tb, pos, item)
    ELSE [tb EXCEPT ![Min(KeyIndex(tb, item.id))] = item]

\* where the hash of a new key can place it in the storage order
Positions(tb, key) == IF KeyIndex(tb, key) = {} THEN 1..(Len(tb) + 1) ELSE {1}

\* client.get: data.Item, which is undefined (NoItem) for an absent key
clientGet(tb, key) ==
    IF KeyIndex(tb, key) = {} THEN NoItem ELSE tb[Min(KeyIndex(tb, key))]

\* client.delete: removes the item with that key; an absent key is no error
clientDelete(tb, key) ==
    IF KeyIndex(tb, key) = {} THEN tb ELSE Splice(tb, Min(KeyIndex(tb, key)))

\* the placeholder `:${name}` of a field and ":idvalue" + index of an id
Placeholder(name) == ":" \o name
IdKey(index) == ":idvalue" \o <<"1", "2", "3", "4", "5", "6", "7", "8", "9">>[index]

\* A filter expression is [idIn, attrs]: "className = :className", then
\* " AND id IN (...)" over the placeholders idIn when idIn is not empty, then
\* " AND attributes.<name> = :<name>" for each name of attrs.  values are the
\* ExpressionAttributeValues.  A comparison is of type and value; a path
\* that the item does not have satisfies no comparison.
FilterHolds(item, filter, values) ==
    /\ item.className = values[":className"]
    /\ filter.idIn # <<>> => \E j \in DOMAIN filter.idIn : item.id = values[filter.idIn[j]]
    /\ \A name \in filter.attrs :
          /\ name \in DOMAIN item.attributes
          /\ item.attributes[name] = values[Placeholder(name)]

\* client.scan: the items that satisfy the filter, in storage order
clientScan(tb, filter, values) ==
    LET Keep(item) == FilterHolds(item, filter, values)
    IN SelectSeq(tb, Keep)

(***************************************************************************)
(* DynomoImpl (lib/dbimpl.js).  A mutation returns [table, resp]; the      *)
(* items of a response are the stored items, not yet flattened.            *)
(***************************************************************************)
DynomoImpl_create(tb, className, attributes, uuid, pos, aerr) ==
    LET obj == [id |-> Str(uuid), className |-> Str(className), attributes |-> attributes]
    IN IF aerr
       THEN [table |-> tb, resp |-> Reject("error", <<BackendErr>>)]
       ELSE [table |-> clientPut(tb, obj, pos), resp |-> Resolve("item", <<obj>>)]

DynomoImpl_put(tb, className, obj, pos, aerr) ==
    IF Falsy(obj.id) \/ Falsy(obj.className)
    THEN [table |-> tb, resp |-> Reject("string", <<Str("put: invalid object: ")>>)]
    ELSE IF ~LooseEq(obj.className, Str(className))
    THEN [table |-> tb, resp |-> Reject("string", <<Str("put: invalid class name: ")>>)]
    ELSE IF aerr
    THEN [table |-> tb, resp |-> Reject("error", <<BackendErr>>)]
    ELSE [table |-> clientPut(tb, obj, pos), resp |-> Resolve("item", <<obj>>)]

DynomoImpl_findByIds(tb, className, ids, aerr) ==
    LET idKeys == [i \in DOMAIN ids |-> IdKey(i)]
        idObject == [k \in {":className"} \cup {idKeys[i] : i \in DOMAIN ids} |->
                        IF k = ":className" THEN Str(className)
                        ELSE ids[CHOOSE i \in DOMAIN ids : idKeys[i] = k]]
        filter == [idIn |-> <<":className">> \o idKeys, attrs |-> {}]
    IN IF aerr THEN Reject("error", <<BackendErr>>)
       ELSE Resolve("items", clientScan(tb, filter, idObject))

DynomoImpl_findById(tb, className, key, aerr) ==
    LET item == clientGet(tb, key)
    IN IF aerr THEN Reject("error", <<BackendErr>>)
       ELSE IF item = NoItem
       THEN Uncaught("TypeError: Cannot read properties of undefined (reading 'className')")
       ELSE IF ~LooseEq(item.className, Str(className))
       THEN Reject("string", <<Str("findByid: classNames don't match!")>>)
       ELSE Resolve("item", <<item>>)

DynomoImpl_findAll(tb, className, aerr) ==
    LET filter == [idIn |-> <<>>, attrs |-> {}]
        values == [k \in {":className"} |-> Str(className)]
    IN IF aerr THEN Reject("error", <<BackendErr>>)
       ELSE Resolve("items", clientScan(tb, filter, values))

\* the ExpressionAttributeValues after the loop over the own properties of
\* fields: a later assignment to a key replaces the earlier one
FieldValues(className, fields) ==
    [k \in {":className"} \cup {Placeholder(name) : name \in DOMAIN fields} |->
        IF \E name \in DOMAIN fields : Placeholder(name) = k
        THEN fields[CHOOSE name \in DOMAIN fields : Placeholder(name) = k]
        ELSE Str(className)]

DynomoImpl_findByFields(tb, className, fields, aerr) ==
    LET filter == [idIn |-> <<>>, attrs |-> DOMAIN fields]
    IN IF aerr THEN Reject("error", <<BackendErr>>)
       ELSE Resolve("items", clientScan(tb, filter, FieldValues(className, fields)))

DynomoImpl_deleteById(tb, className, key, aerr) ==
    IF aerr
    THEN [table |-> tb, resp |-> Reject("error", <<BackendErr>>)]
    ELSE [table |-> clientDelete(tb, key), resp |-> Resolve("boolean", <<JsTrue>>)]

(***************************************************************************)
(* DbModel (model-db): the second copy of the codec.                       *)
(***************************************************************************)

\* flattenModel: attributes.id = dbObj.id; return attributes
DbModel_flattenModel(dbObj) == SetKey(dbObj.attributes, "id", dbObj.id)

\* restoreModel: {id, className: modelName, attributes: copy of obj with
\* attributes.id = undefined}
DbModel_restoreModel(modelName, obj) ==
    [id |-> Get(obj, "id"), className |-> Str(modelName),
     attributes |-> SetKey(copy(obj), "id", Undefined)]

(***************************************************************************)
(* The older DynamoModel (no className in put, findById, findByIds and     *)
(* deleteById) under DbModel (model-db): the third stack an application    *)
(* can be built with.                                                      *)
(***************************************************************************)

\* the DocumentClient writes the properties of a map that have a value: a
\* property whose value is undefined is not written
marshal(item) == [item EXCEPT !.attributes = copy(item.attributes)]

\* DynamoModel.create of the older copy
DynamoModel0_create(tb, className, attributes, uuid, pos, aerr) ==
    LET obj == [id |-> Str(uuid), className |-> Str(className), attributes |-> attributes]
    IN IF aerr
       THEN [table |-> tb, resp |-> Reject("error", <<BackendErr>>)]
       ELSE [table |-> clientPut(tb, marshal(obj), pos), resp |-> Resolve("item", <<obj>>)]

\* DbModel.create
DbModel_create(tb, modelName, data, uuid, pos, aerr) ==
    LET obj == DbModel_restoreModel(modelName, data)
        result == DynamoModel0_create(tb, modelName, obj.attributes, uuid, pos, aerr)
    IN [table |-> result.table,
        resp |-> IF result.resp.kind = "resolve"
                 THEN Resolve("object", <<DbModel_flattenModel(result.resp.val[1])>>)
                 ELSE result.resp]

(***************************************************************************)
(* The other operations of the older DynamoModel and of DbModel.           *)
(***************************************************************************)

\* a promise resolved with undefined
ResolveUndefined == Resolve("undefined", <<Undefined>>)

\* DynamoModel.put(obj) of the older copy: no className to compare with
DynamoModel0_put(tb, obj, pos, aerr) ==
    IF Falsy(obj.id) \/ Falsy(obj.className)
    THEN [table |-> tb, resp |-> Reject("string", <<Str("put: invalid object: ")>>)]
    ELSE IF aerr
    THEN [table |-> tb, resp |-> Reject("error", <<BackendErr>>)]
    ELSE [table |-> clientPut(tb, marshal(obj), pos), resp |-> Resolve("item", <<obj>>)]

\* DynamoModel.findByIds(ids) of the older copy: the filter is
\* "id IN (:idvalue1, ...)" alone; with no id the expression "id IN ()" and
\* the empty ExpressionAttributeValues are refused by the service
DynamoModel0_findByIds(tb, ids, aerr) ==
    LET Wanted(item) == \E i \in DOMAIN ids : item.id = ids[i]
    IN IF aerr \/ ids = <<>> THEN Reject("error", <<BackendErr>>)
       ELSE Resolve("items", SelectSeq(tb, Wanted))

\* DynamoModel.findById(key) of the older copy: resolve(data.Item)
DynamoModel0_findById(tb, key, aerr) ==
    IF aerr THEN Reject("error", <<BackendErr>>)
    ELSE IF clientGet(tb, key) = NoItem THEN ResolveUndefined
    ELSE Resolve("item", <<clientGet(tb, key)>>)

\* DynamoModel.findAll(className) of the older copy
DynamoModel0_findAll(tb, className, aerr) ==
    LET filter == [idIn |-> <<>>, attrs |-> {}]
        values == [k \in {":className"} |-> Str(className)]
    IN IF aerr THEN Reject("error", <<BackendErr>>)
       ELSE Resolve("items", clientScan(tb, filter, values))

\* DynamoModel.findByFields(className, fields) of the older copy
DynamoModel0_findByFields(tb, className, fields, aerr) ==
    LET filter == [idIn |-> <<>>, attrs |-> DOMAIN fields]
    IN IF aerr THEN Reject("error", <<BackendErr>>)
       ELSE Resolve("items", clientScan(tb, filter, FieldValues(className, fields)))

\* DynamoModel.deleteById(key) of the older copy
DynamoModel0_deleteById(tb, key, aerr) ==
    IF aerr
    THEN [table |-> tb, resp |-> Reject("error", <<BackendErr>>)]
    ELSE [table |-> clientDelete(tb, key), resp |-> Resolve("boolean", <<JsTrue>>)]

\* flattenModel(result) in an async method of DbModel, for the response r of
\* the db: the flat object of an item; a TypeError, that is a rejection, when
\* the result is undefined; undefined when the result has no attributes
DbModel_flattenResult(r) ==
    IF r.kind # "resolve" THEN r
    ELSE IF r.val = <<Undefined>>
    THEN Reject("error",
                <<Str("TypeError: Cannot read properties of undefined (reading 'attributes')")>>)
    ELSE IF r.shape = "item" THEN Resolve("object", <<DbModel_flattenModel(r.val[1])>>)
    ELSE ResolveUndefined

\* flattenArray(results) for the response r of the db
DbModel_flattenArray(r) ==
    IF r.kind # "resolve" THEN r
    ELSE Resolve("array", [i \in DOMAIN r.val |-> DbModel_flattenModel(r.val[i])])

DbModel_put(tb, modelName, data, pos, aerr) ==
    LET result == DynamoModel0_put(tb, DbModel_restoreModel(modelName, data), pos, aerr)
    IN [table |-> result.table, resp |-> DbModel_flattenResult(result.resp)]

DbModel_findByIds(tb, modelName, ids, aerr) ==
    DbModel_flattenArray(DynamoModel0_findByIds(tb, ids, aerr))

DbModel_findById(tb, modelName, id, aerr) ==
    DbModel_flattenResult(DynamoModel0_findById(tb, id, aerr))

DbModel_findByFields(tb, modelName, fields, aerr) ==
    DbModel_flattenArray(DynamoModel0_findByFields(tb, modelName, fields, aerr))

DbModel_findAll(tb, modelName, aerr) ==
    DbModel_flattenArray(DynamoModel0_findAll(tb, modelName, aerr))

DbModel_deleteById(tb, modelName, id, aerr) ==
    LET result == DynamoModel0_deleteById(tb, id, aerr)
    IN [table |-> result.table, resp |-> DbModel_flattenResult(result.resp)]

(***************************************************************************)
(* DynamoModel (db-dynamo/index.js): the flattening wrapper of DynomoImpl. *)
(***************************************************************************)

\* a variant that returns the attributes without the id
flattenModel_withoutId(dbObj) == dbObj.attributes

\* flattenModel: the attributes with id set from the item; undefined when
\* the item has no attributes
flattenModel(dbObj) == SetKey(dbObj.attributes, "id", dbObj.id)

\* flattenArray: flattenModel of each item, in order
flattenArray(items) == [i \in DOMAIN items |-> flattenModel(items[i])]

\* restoreModel: {id, className, attributes: copy of obj without id}
restoreModel(className, obj) ==
    [id |-> Get(obj, "id"), className |-> Str(className),
     attributes |-> DeleteKey(copy(obj), "id")]

\* what the wrapper returns for the response r of the implementation
FlattenOne(r) ==
    IF r.kind = "resolve" THEN Resolve("object", <<flattenModel(r.val[1])>>) ELSE r
FlattenAll(r) ==
    IF r.kind = "resolve" THEN Resolve("array", flattenArray(r.val)) ELSE r

DynamoModel_create(tb, className, data, uuid, pos, aerr) ==
    LET obj == restoreModel(className, data)
        result == DynomoImpl_create(tb, className, obj.attributes, uuid, pos, aerr)
    IN [table |-> result.table, resp |-> FlattenOne(result.resp)]

DynamoModel_put(tb, className, data, pos, aerr) ==
    LET obj == restoreModel(className, data)
        result == DynomoImpl_put(tb, className, obj, pos, aerr)
    IN [table |-> result.table, resp |-> FlattenOne(result.resp)]

DynamoModel_findByIds(tb, className, ids, aerr) ==
    FlattenAll(DynomoImpl_findByIds(tb, className, ids, aerr))

DynamoModel_findById(tb, className, id, aerr) ==
    FlattenOne(DynomoImpl_findById(tb, className, id, aerr))

DynamoModel_findAll(tb, className, aerr) ==
    FlattenAll(DynomoImpl_findAll(tb, className, aerr))

DynamoModel_findByFields(tb, className, fields, aerr) ==
    FlattenAll(DynomoImpl_findByFields(tb, className, fields, aerr))

DynamoModel_deleteById(tb, className, id, aerr) ==
    DynomoImpl_deleteById(tb, className, id, aerr)

(***************************************************************************)
(* The state.                                                              *)
(***************************************************************************)
VARIABLES
    backend,    \* the adapter the application was built with: "file" or "dynamo"
    now,        \* the wall clock, in milliseconds
    contents,   \* FileDB: the in-memory table
    file,       \* FileDB: the parsed content of the durable file
    table,      \* DynomoImpl: the DynamoDB table
    uuids,      \* the number of uuids uuidv4() has drawn
    call,       \* the store operation the caller awaits: [op, className, arg]
    resp,       \* what its promise settled with
    globalAuthFn,   \* ModelServer: the global authorization function, or None
    routes,     \* ReactServer: the routes installed on the express app, in order
    catalog,    \* ModelExplorer: the methods registered for the API explorer
    req,        \* the HTTP request being served
    http,       \* the HTTP response to it
    writes      \* FileDB: the data of the fs.writeFile calls in flight, in call order

storeVars == <<backend, now, contents, file, table, uuids>>
callVars == <<call, resp>>
serverVars == <<globalAuthFn, routes, catalog, req, http>>
vars == <<backend, now, contents, file, table, uuids, call, resp,
          globalAuthFn, routes, catalog, req, http, writes>>

(***************************************************************************)
(* The inputs of the operations.                                           *)
(***************************************************************************)
ClassNames == {"A", "B"}

\* the attribute objects callers create records from
AttrObjects ==
    {[a |-> Num("1"), b |-> Num("2")],
     [a |-> Num("1"), b |-> Num("3")]}

\* the fields objects callers search with
FieldObjects ==
    {EmptyObj,
     [a |-> Num("1")],
     [a |-> Str("1")],
     [a |-> Num("1"), b |-> Num("2")]}

\* the ids callers ask for: the ids the adapter can have assigned, and one
\* that no record has
MissingId == Str("missing")
FileIds == {Str(TimeToString(t)) : t \in 1..MaxClock} \cup {MissingId}
DynamoIds == {Str(Uuid(n)) : n \in 1..MaxUuid} \cup {MissingId}

\* the objects callers upsert: attributes with an id, and an object without
WithIds(ids) == {SetKey(o, "id", id) : o \in AttrObjects, id \in ids}
DynamoUpdates == WithIds(DynamoIds) \cup {EmptyObj}
\* an object read back from FileDB carries the class property of its record
FileUpdates(className) ==
    WithIds(FileIds) \cup {SetKey(o, "class", Str(className)) : o \in WithIds(FileIds)}
    \cup {EmptyObj}

\* the id lists of findByIds
MaxIds == 2
IdListsOf(ids) == UNION {[1..n -> ids] : n \in 0..MaxIds}
FileIdLists == IdListsOf(FileIds)
DynamoIdLists == IdListsOf(DynamoIds)

\* the I/O faults injected: whether fs.writeFile or the DynamoDB service
\* report an error
IoFaults == {FALSE}

Call(op, className, arg) == [op |-> op, className |-> className, arg |-> arg]

(***************************************************************************)
(* The route layer: the values of its state.                               *)
(***************************************************************************)
\* an absent function (undefined)
None == "none"

\* a request context {session, query, params, body}; a body is absent, an
\* object or an array: [kind, val] with val a sequence as in a response
NoBody == [kind |-> "undefined", val |-> <<>>]
ObjBody(obj) == [kind |-> "object", val |-> <<obj>>]
ArrBody(list) == [kind |-> "array", val |-> list]
Context(session, params, body) ==
    [session |-> session, query |-> EmptyObj, params |-> params, body |-> body]

\* the models the application constructs, each with the plural name it
\* supplies (none for A), and the base path it constructs the server with
ModelPlurals == [A |-> None, Person |-> "People"]
BasePath == "/api"

\* a variant that always adds an 's' to the model name
getModelNamePlural_alwaysS(modelName, modelNamePlural) == modelName \o "s"

\* getModelNamePlural: the plural name supplied, else the model name plus 's'
getModelNamePlural(modelName, modelNamePlural) ==
    IF modelNamePlural \notin {None, ""} THEN modelNamePlural ELSE modelName \o "s"

\* extend: the name the methods of a model are registered under
modelApiName(model) == getModelNamePlural(model, ModelPlurals[model])

\* serverMethod: const fullPath = `${basePath}/${modelApiName}${path}`
serverMethodPath(apiName, path) == BasePath \o "/" \o apiName \o path

\* an installed route: the arguments of ModelServer.method, the path
\* serverMethod installs it at, and (history, not read by the code) whether
\* a global authorization function was set when it was installed
Route(model, path, verb, params, fn, fnAuth, global) ==
    [model |-> model, path |-> path, verb |-> verb, params |-> params,
     fn |-> fn, fnAuth |-> fnAuth, hadGlobal |-> global # None,
     fullPath |-> serverMethodPath(modelApiName(model), path)]

NoRoute ==
    [model |-> "", path |-> "", verb |-> "", params |-> <<>>,
     fn |-> None, fnAuth |-> None, hadGlobal |-> FALSE, fullPath |-> ""]

\* no request is being served
NoReq ==
    [stage |-> "idle", route |-> NoRoute, context |-> Context(EmptyObj, EmptyObj, NoBody),
     authFn |-> None, globalAtStart |-> None, marshalled |-> FALSE, handlerCalled |-> FALSE]

\* an HTTP response: the status, the kind of body, the JSON value val sent,
\* or the error body {code, message}
NoError == [code |-> 0, message |-> Undefined]
NoHttp == [status |-> 0, kind |-> "none", val |-> <<>>, error |-> NoError]

(***************************************************************************)
(* Init: the application is built with one adapter; the file does not      *)
(* exist yet (loadFile returns []), the table is empty, nothing was called.*)
(***************************************************************************)
Init ==
    /\ backend \in {"file", "dynamo"}
    /\ now = 1
    /\ contents = <<>>
    /\ file = <<>>
    /\ table = <<>>
    /\ uuids = 0
    /\ call = Call("none", "", <<>>)
    /\ resp = NoResponse
    /\ globalAuthFn = None
    /\ routes = <<>>
    /\ catalog = <<>>
    /\ req = NoReq
    /\ http = NoHttp
    /\ writes = <<>>

\* no call is outstanding: the caller awaits each operation before the next
Idle == call.op = "none"

\* the caller's continuation runs with what the promise settled with
Return ==
    /\ ~Idle
    /\ call' = Call("none", "", <<>>)
    /\ resp' = NoResponse
    /\ UNCHANGED <<storeVars, serverVars, writes>>

\* a millisecond passes
Tick ==
    /\ now < MaxClock
    /\ now' = now + 1
    /\ UNCHANGED <<backend, contents, file, table, uuids, call, resp, serverVars, writes>>

(***************************************************************************)
(* The operations of FileDB, called by the application.                    *)
(***************************************************************************)
File_create ==
    /\ Idle
    /\ backend = "file"
    /\ Len(contents) < MaxRecords
    /\ \E className \in ClassNames, entryData \in AttrObjects, werr \in IoFaults :
         LET r == FileDB_create(contents, file, className, entryData, now, werr)
         IN /\ contents' = r.contents
            /\ file' = r.file
            /\ resp' = r.resp
            /\ call' = Call("create", className, <<entryData>>)
    /\ UNCHANGED <<backend, now, table, uuids, serverVars, writes>>

File_put ==
    /\ Idle
    /\ backend = "file"
    /\ \E className \in ClassNames, werr \in IoFaults : \E updateEntry \in FileUpdates(className) :
         LET r == FileDB_put(contents, file, className, updateEntry, werr)
         IN /\ contents' = r.contents
            /\ file' = r.file
            /\ resp' = r.resp
            /\ call' = Call("put", className, <<updateEntry>>)
    /\ UNCHANGED <<backend, now, table, uuids, serverVars, writes>>

File_findByIds ==
    /\ Idle
    /\ backend = "file"
    /\ \E className \in ClassNames, ids \in FileIdLists :
         /\ resp' = FileDB_findByIds(contents, className, ids)
         /\ call' = Call("findByIds", className, ids)
    /\ UNCHANGED <<storeVars, serverVars, writes>>

File_findById ==
    /\ Idle
    /\ backend = "file"
    /\ \E className \in ClassNames, id \in FileIds :
         /\ resp' = FileDB_findById(contents, className, id)
         /\ call' = Call("findById", className, <<id>>)
    /\ UNCHANGED <<storeVars, serverVars, writes>>

File_findAll ==
    /\ Idle
    /\ backend = "file"
    /\ \E className \in ClassNames :
         /\ resp' = FileDB_findAll(contents, className)
         /\ call' = Call("findAll", className, <<>>)
    /\ UNCHANGED <<storeVars, serverVars, writes>>

File_findByFields ==
    /\ Idle
    /\ backend = "file"
    /\ \E className \in ClassNames, fields \in FieldObjects :
         /\ resp' = FileDB_findByFields(contents, className, fields)
         /\ call' = Call("findByFields", className, <<fields>>)
    /\ UNCHANGED <<storeVars, serverVars, writes>>

File_deleteById ==
    /\ Idle
    /\ backend = "file"
    /\ \E className \in ClassNames, key \in FileIds, werr \in IoFaults :
         LET r == FileDB_deleteById(contents, file, className, key, werr)
         IN /\ contents' = r.contents
            /\ file' = r.file
            /\ resp' = r.resp
            /\ call' = Call("deleteById", className, <<key>>)
    /\ UNCHANGED <<backend, now, table, uuids, serverVars, writes>>

(***************************************************************************)
(* The operations of DynamoModel, called by the application.               *)
(***************************************************************************)
Dynamo_create ==
    /\ Idle
    /\ backend = "dynamo"
    /\ Len(table) < MaxRecords
    /\ uuids < MaxUuid
    /\ \E className \in ClassNames, data \in AttrObjects, aerr \in IoFaults :
       \E pos \in Positions(table, Str(Uuid(uuids + 1))) :
         LET r == DynamoModel_create(table, className, data, Uuid(uuids + 1), pos, aerr)
         IN /\ table' = r.table
            /\ resp' = r.resp
            /\ call' = Call("create", className, <<data>>)
    /\ uuids' = uuids + 1
    /\ UNCHANGED <<backend, now, contents, file, serverVars, writes>>

Dynamo_put ==
    /\ Idle
    /\ backend = "dynamo"
    /\ \E className \in ClassNames, data \in DynamoUpdates, aerr \in IoFaults :
       \E pos \in Positions(table, Get(data, "id")) :
         LET r == DynamoModel_put(table, className, data, pos, aerr)
         IN /\ Len(r.table) <= MaxRecords
            /\ table' = r.table
            /\ resp' = r.resp
            /\ call' = Call("put", className, <<data>>)
    /\ UNCHANGED <<backend, now, contents, file, uuids, serverVars, writes>>

Dynamo_findByIds ==
    /\ Idle
    /\ backend = "dynamo"
    /\ \E className \in ClassNames, ids \in DynamoIdLists, aerr \in IoFaults :
         /\ resp' = DynamoModel_findByIds(table, className, ids, aerr)
         /\ call' = Call("findByIds", className, ids)
    /\ UNCHANGED <<storeVars, serverVars, writes>>

Dynamo_findById ==
    /\ Idle
    /\ backend = "dynamo"
    /\ \E className \in ClassNames, id \in DynamoIds, aerr \in IoFaults :
         /\ resp' = DynamoModel_findById(table, className, id, aerr)
         /\ call' = Call("findById", className, <<id>>)
    /\ UNCHANGED <<storeVars, serverVars, writes>>

Dynamo_findAll ==
    /\ Idle
    /\ backend = "dynamo"
    /\ \E className \in ClassNames, aerr \in IoFaults :
         /\ resp' = DynamoModel_findAll(table, className, aerr)
         /\ call' = Call("findAll", className, <<>>)
    /\ UNCHANGED <<storeVars, serverVars, writes>>

Dynamo_findByFields ==
    /\ Idle
    /\ backend = "dynamo"
    /\ \E className \in ClassNames, fields \in FieldObjects, aerr \in IoFaults :
         /\ resp' = DynamoModel_findByFields(table, className, fields, aerr)
         /\ call' = Call("findByFields", className, <<fields>>)
    /\ UNCHANGED <<storeVars, serverVars, writes>>

Dynamo_deleteById ==
    /\ Idle
    /\ backend = "dynamo"
    /\ \E className \in ClassNames, id \in DynamoIds, aerr \in IoFaults :
         LET r == DynamoModel_deleteById(table, className, id, aerr)
         IN /\ table' = r.table
            /\ resp' = r.resp
            /\ call' = Call("deleteById", className, <<id>>)
    /\ UNCHANGED <<backend, now, contents, file, uuids, serverVars, writes>>

Next ==
    \/ Tick
    \/ Return
    \/ File_create
    \/ File_put
    \/ File_findByIds
    \/ File_findById
    \/ File_findAll
    \/ File_findByFields
    \/ File_deleteById
    \/ Dynamo_create
    \/ Dynamo_put
    \/ Dynamo_findByIds
    \/ Dynamo_findById
    \/ Dynamo_findAll
    \/ Dynamo_findByFields
    \/ Dynamo_deleteById

Spec == Init /\ [][Next]_vars

(***************************************************************************)
(* The model object of a route: the store operations bound to the model's  *)
(* className on the adapter the application was built with.  st is the     *)
(* store [contents, file, table, uuids]; an argument is [kind, val] like a *)
(* body, or a single value.                                                *)
(***************************************************************************)
StoreOf == [contents |-> contents, file |-> file, table |-> table, uuids |-> uuids]

NoArg == [kind |-> "undefined", val |-> <<>>]
ValueArg(value) == IF value = Undefined THEN NoArg ELSE [kind |-> "value", val |-> <<value>>]

\* the object of an argument; a for-in loop over undefined runs no iteration
ObjOf(arg) == IF arg.kind = "object" THEN arg.val[1] ELSE EmptyObj

FileResult(st, r) == [st |-> [st EXCEPT !.contents = r.contents, !.file = r.file], resp |-> r.resp]
DynamoResult(st, r) == [st |-> [st EXCEPT !.table = r.table], resp |-> r.resp]
ReadResult(st, r) == [st |-> st, resp |-> r]

ModelCall(bk, st, className, op, arg, time, pos, fault) ==
    IF bk = "file"
    THEN CASE op = "create" ->
                FileResult(st, FileDB_create(st.contents, st.file, className, ObjOf(arg), time, fault))
           [] op = "put" ->
                FileResult(st, FileDB_put(st.contents, st.file, className, ObjOf(arg), fault))
           [] op = "deleteById" ->
                FileResult(st, FileDB_deleteById(st.contents, st.file, className, arg.val[1], fault))
           [] op = "findById" -> ReadResult(st, FileDB_findById(st.contents, className, arg.val[1]))
           [] op = "findByIds" -> ReadResult(st, FileDB_findByIds(st.contents, className, arg.val))
           [] op = "findByFields" ->
                ReadResult(st, FileDB_findByFields(st.contents, className, ObjOf(arg)))
           [] OTHER -> ReadResult(st, FileDB_findAll(st.contents, className))
    ELSE IF bk = "dynamo"
    THEN CASE op = "create" ->
                LET r == DynamoModel_create(st.table, className, ObjOf(arg),
                                            Uuid(st.uuids + 1), pos, fault)
                IN [st |-> [st EXCEPT !.table = r.table, !.uuids = st.uuids + 1], resp |-> r.resp]
           [] op = "put" ->
                DynamoResult(st, DynamoModel_put(st.table, className, ObjOf(arg), pos, fault))
           [] op = "deleteById" ->
                DynamoResult(st, DynamoModel_deleteById(st.table, className, arg.val[1], fault))
           [] op = "findById" ->
                ReadResult(st, DynamoModel_findById(st.table, className, arg.val[1], fault))
           [] op = "findByIds" ->
                ReadResult(st, DynamoModel_findByIds(st.table, className, arg.val, fault))
           [] op = "findByFields" ->
                ReadResult(st, DynamoModel_findByFields(st.table, className, ObjOf(arg), fault))
           [] OTHER -> ReadResult(st, DynamoModel_findAll(st.table, className, fault))
    ELSE CASE op = "create" ->
                LET r == DbModel_create(st.table, className, ObjOf(arg),
                                        Uuid(st.uuids + 1), pos, fault)
                IN [st |-> [st EXCEPT !.table = r.table, !.uuids = st.uuids + 1], resp |-> r.resp]
           [] op = "put" ->
                DynamoResult(st, DbModel_put(st.table, className, ObjOf(arg), pos, fault))
           [] op = "deleteById" ->
                DynamoResult(st, DbModel_deleteById(st.table, className, arg.val[1], fault))
           [] op = "findById" ->
                ReadResult(st, DbModel_findById(st.table, className, arg.val[1], fault))
           [] op = "findByIds" ->
                ReadResult(st, DbModel_findByIds(st.table, className, arg.val, fault))
           [] op = "findByFields" ->
                ReadResult(st, DbModel_findByFields(st.table, className, ObjOf(arg), fault))
           [] OTHER -> ReadResult(st, DbModel_findAll(st.table, className, fault))

(***************************************************************************)
(* ModelServer: the handlers of addCrudMethods, parseArgs, the             *)
(* authorization handler of serverMethod.                                  *)
(***************************************************************************)
CrudFns == {"findAll", "create", "put", "findByFields", "findByIds",
            "findById", "deleteById", "existsById"}

\* if (record), if (id), if (ids)
Truthy(arg) ==
    \/ arg.kind \in {"object", "array"}
    \/ arg.kind = "value" /\ ~Falsy(arg.val[1])

\* throw new Error(message) in an async function: a rejection with an Error
Throw(message) == Reject("error", <<Str(message)>>)

\* the messages of the Errors the handlers throw for a missing argument
InvalidArgument ==
    [create |-> "create: invalid record", put |-> "put: invalid record",
     findById |-> "findById: invalid id", findByIds |-> "findByIds: invalid ids",
     deleteById |-> "deleteById: invalid id", existsById |-> "existsById: invalid id"]

\* the handler fn of a CRUD route, called with the marshaled arguments
CrudFn(fn, args, bk, st, className, time, pos, fault) ==
    LET first == IF Len(args) >= 1 THEN args[1] ELSE NoArg
    IN CASE fn = "findAll" -> ModelCall(bk, st, className, "findAll", NoArg, time, pos, fault)
         [] fn = "findByFields" ->
              ModelCall(bk, st, className, "findByFields", first, time, pos, fault)
         [] fn = "existsById" ->
              IF Truthy(first)
              THEN LET r == ModelCall(bk, st, className, "findById", first, time, pos, fault)
                   IN [st |-> r.st,
                       resp |-> IF r.resp.kind = "resolve"
                                THEN Resolve("boolean",
                                             <<IF r.resp.val = <<Undefined>> THEN JsFalse ELSE JsTrue>>)
                                ELSE r.resp]
              ELSE [st |-> st, resp |-> Throw(InvalidArgument[fn])]
         [] OTHER ->
              IF Truthy(first)
              THEN ModelCall(bk, st, className, fn, first, time, pos, fault)
              ELSE [st |-> st, resp |-> Throw(InvalidArgument[fn])]

Sources == {"param", "query", "body", "session"}

\* parseArgs throws when an entry has no name or an unknown source
parseArgsThrows(params) ==
    \E i \in DOMAIN params : params[i].name = "" \/ params[i].source \notin Sources

\* a variant that hands a body parameter the property of the body that has
\* the parameter's name
parseArgs_bodyField(params, context) ==
    [i \in DOMAIN params |->
        CASE params[i].source = "param" -> ValueArg(Get(context.params, params[i].name))
          [] params[i].source = "query" -> ValueArg(Get(context.query, params[i].name))
          [] params[i].source = "body" -> ValueArg(Get(ObjOf(context.body), params[i].name))
          [] OTHER -> ObjBody(context.session)]

\* parseArgs: one positional argument per entry of the parameter list
parseArgs(params, context) ==
    [i \in DOMAIN params |->
        CASE params[i].source = "param" -> ValueArg(Get(context.params, params[i].name))
          [] params[i].source = "query" -> ValueArg(Get(context.query, params[i].name))
          [] params[i].source = "body" -> context.body
          [] OTHER -> ObjBody(context.session)]

\* the authorization functions an application supplies, and what each does
\* with a context: [thrown, value]
Preds == {"denyAll", "throws", "loggedIn"}
PredOutcome(pred, context) ==
    CASE pred = "denyAll" -> [thrown |-> FALSE, value |-> JsFalse]
      [] pred = "loggedIn" -> [thrown |-> FALSE, value |-> Get(context.session, "user")]
      [] OTHER -> [thrown |-> TRUE, value |-> Undefined]

\* a variant that prefers the global function: globalAuthFn || fnAuth
AuthFnFor_globalFirst(fnAuth, global) == IF global # None THEN global ELSE fnAuth

\* authHandler: const fn = fnAuth || globalAuthFn
AuthFnFor(fnAuth, global) == IF fnAuth # None THEN fnAuth ELSE global

\* authHandler: true without a function, else what the function returns
authHandler(fn, context) ==
    IF fn = None THEN [thrown |-> FALSE, value |-> JsTrue] ELSE PredOutcome(fn, context)

(***************************************************************************)
(* ReactServer: callFn, processError, JsonResponse.                        *)
(***************************************************************************)

\* a variant that fails only on the value false: if (result === false) 401
AuthFailed_onlyFalse(outcome) == ~outcome.thrown /\ outcome.value = JsFalse

\* callFn: result = await authFn(context).catch(log); if (!result) 401
AuthFailed(outcome) == outcome.thrown \/ Falsy(outcome.value)

\* JsonResponse.error(code, err): {code, message: err.message}
JsonError(code, message) ==
    [status |-> code, kind |-> "error", val |-> <<>>,
     error |-> [code |-> code, message |-> message]]

\* JsonResponse.send(obj)
JsonSend(r) == [status |-> 200, kind |-> r.shape, val |-> r.val, error |-> NoError]

\* processError for what the handler rejected with: an Error carries a
\* message, a string or a boolean has no message property
processError(r) ==
    IF r.shape = "error" THEN JsonError(500, r.val[1]) ELSE JsonError(500, Undefined)

\* the response to a request whose handler settled with r; the request of a
\* handler that never settles is never answered
Respond(r) ==
    CASE r.kind = "resolve" -> JsonSend(r)
      [] r.kind = "reject" -> processError(r)
      [] OTHER -> NoHttp

(***************************************************************************)
(* Registration: ModelServer.method and addCrudMethods.                    *)
(***************************************************************************)
ValidVerbs == {"GET", "POST", "PUT", "DELETE"}

Param(name, source, type) == [name |-> name, source |-> source, type |-> type]

\* the routes of addCrudMethods, in the order it registers them
CrudRoutes ==
    <<[path |-> "", verb |-> "GET", params |-> <<>>, fn |-> "findAll"],
      [path |-> "", verb |-> "POST",
       params |-> <<Param("record", "body", "object")>>, fn |-> "create"],
      [path |-> "", verb |-> "PUT",
       params |-> <<Param("record", "body", "object")>>, fn |-> "put"],
      [path |-> "/findByFields", verb |-> "POST",
       params |-> <<Param("fields", "body", "object")>>, fn |-> "findByFields"],
      [path |-> "/findByIds", verb |-> "POST",
       params |-> <<Param("ids", "body", "array")>>, fn |-> "findByIds"],
      [path |-> "/:id", verb |-> "GET",
       params |-> <<Param("id", "param", "string")>>, fn |-> "findById"],
      [path |-> "/:id", verb |-> "DELETE",
       params |-> <<Param("id", "param", "string")>>, fn |-> "deleteById"],
      [path |-> "/:id/exists", verb |-> "GET",
       params |-> <<Param("id", "param", "string")>>, fn |-> "existsById"]>>

\* explorer.addMethod: the entry the explorer keeps of a method
CatalogEntry(model, path, verb, params) ==
    [model |-> model, path |-> path, verb |-> verb, params |-> params]

\* ReactServer.method: installs the route, or throws for an invalid verb
reactServerMethod(rs, route) ==
    IF route.verb \in ValidVerbs THEN Append(rs, route) ELSE rs

\* a variant that hands the explorer a description without the parameters
method_undocumentedParams(sv, model, path, verb, params, fn, fnAuth, global) ==
    [routes |-> reactServerMethod(sv.routes, Route(model, path, verb, params, fn, fnAuth, global)),
     catalog |-> Append(sv.catalog, CatalogEntry(model, path, verb, <<>>))]

\* ModelServer.method: registers the method with the explorer, then installs
\* the route; sv is [routes, catalog]
method(sv, model, path, verb, params, fn, fnAuth, global) ==
    [routes |-> reactServerMethod(sv.routes, Route(model, path, verb, params, fn, fnAuth, global)),
     catalog |-> Append(sv.catalog, CatalogEntry(model, path, verb, params))]

\* addCrudMethods: the first n methods of CrudRoutes, each without an
\* authorization function of its own
RECURSIVE addCrud(_, _, _, _)
addCrud(sv, model, global, n) ==
    IF n = 0 THEN sv
    ELSE LET r == CrudRoutes[n]
         IN method(addCrud(sv, model, global, n - 1), model,
                   r.path, r.verb, r.params, r.fn, None, global)

addCrudMethods(sv, model, global) == addCrud(sv, model, global, Len(CrudRoutes))

(***************************************************************************)
(* The inputs of the route layer.                                          *)
(***************************************************************************)
\* the models served
ServedModels == {"A"}

\* the number of methods an application registers besides the CRUD methods
MaxCustom == 2
CustomPath == "/custom"

Sessions == {EmptyObj, [user |-> Str("bob")]}

\* the ids and the bodies clients send
ServerIds(bk) == IF bk = "file" THEN {Str(TimeToString(1)), MissingId}
                 ELSE {Str(Uuid(1)), MissingId}
ServerObject == [a |-> Num("1"), b |-> Num("2")]

\* the contexts of the requests to a route bound to fn
ContextsFor(fn, bk) ==
    LET noParams == {EmptyObj}
        idParams == {[id |-> id] : id \in ServerIds(bk)}
        params == IF fn \in {"findById", "deleteById", "existsById"} THEN idParams ELSE noParams
        bodies ==
            CASE fn = "create" -> {NoBody, ObjBody(ServerObject)}
              [] fn = "put" -> {ObjBody(SetKey(ServerObject, "id", id)) : id \in ServerIds(bk)}
              [] fn = "findByFields" -> {ObjBody([a |-> Num("1")])}
              [] fn = "findByIds" -> {ArrBody(<<id>>) : id \in ServerIds(bk)}
              [] OTHER -> {NoBody}
    IN {Context(session, p, b) : session \in Sessions, p \in params, b \in bodies}

(***************************************************************************)
(* The actions of the route layer.                                         *)
(***************************************************************************)

\* ModelServer.auth(fn)
Auth ==
    /\ \E fn \in Preds \cup {None} :
         /\ fn # globalAuthFn
         /\ globalAuthFn' = fn
    /\ UNCHANGED <<storeVars, callVars, writes, routes, catalog, req, http>>

\* model.addCrudMethods()
AddCrudMethods ==
    /\ \E model \in ServedModels :
         /\ ~ \E i \in DOMAIN catalog : catalog[i].model = model /\ catalog[i].path # CustomPath
         /\ LET sv == addCrudMethods([routes |-> routes, catalog |-> catalog], model, globalAuthFn)
            IN /\ routes' = sv.routes
               /\ catalog' = sv.catalog
    /\ UNCHANGED <<storeVars, callVars, writes, globalAuthFn, req, http>>

\* model.method(path, verb, metadata, fn, authFn): a method of the application
Method ==
    /\ Cardinality({i \in DOMAIN catalog : catalog[i].path = CustomPath}) < MaxCustom
    /\ \E model \in ServedModels, fnAuth \in Preds \cup {None} :
         LET sv == method([routes |-> routes, catalog |-> catalog], model, CustomPath, "POST",
                          <<Param("record", "body", "object")>>, "create", fnAuth, globalAuthFn)
         IN /\ routes' = sv.routes
            /\ catalog' = sv.catalog
    /\ UNCHANGED <<storeVars, callVars, writes, globalAuthFn, req, http>>

\* express hands a request to the first route installed for its verb and path
SameEndpoint(r1, r2) == r1.model = r2.model /\ r1.path = r2.path /\ r1.verb = r2.verb

\* the handler of ReactServer.method calls callFn, which builds the context
\* and calls authHandler: it picks the authorization function and calls it
ReqStart ==
    /\ req.stage = "idle"
    /\ \E i \in DOMAIN routes :
         /\ \A j \in 1..(i - 1) : ~SameEndpoint(routes[j], routes[i])
         /\ \E context \in ContextsFor(routes[i].fn, backend) :
              req' = [stage |-> "auth", route |-> routes[i], context |-> context,
                      authFn |-> AuthFnFor(routes[i].fnAuth, globalAuthFn),
                      globalAtStart |-> globalAuthFn,
                      marshalled |-> FALSE, handlerCalled |-> FALSE]
    /\ http' = NoHttp
    /\ UNCHANGED <<storeVars, callVars, writes, globalAuthFn, routes, catalog>>

\* callFn: the authorization failed: 401, and fn is not called
ReqDenied ==
    /\ req.stage = "auth"
    /\ AuthFailed(authHandler(req.authFn, req.context))
    /\ http' = JsonError(401, Str("Authentication Failed"))
    /\ req' = [req EXCEPT !.stage = "done"]
    /\ UNCHANGED <<storeVars, callVars, writes, globalAuthFn, routes, catalog>>

\* callFn: the authorization passed: fn(context) marshals the arguments and
\* calls the bound handler; its result or its error is the response
ReqHandled ==
    /\ req.stage = "auth"
    /\ ~AuthFailed(authHandler(req.authFn, req.context))
    /\ IF parseArgsThrows(req.route.params)
       THEN /\ http' = Respond(Throw("invalid argument description"))
            /\ req' = [req EXCEPT !.stage = "done", !.marshalled = TRUE]
            /\ UNCHANGED <<contents, file, table, uuids>>
       ELSE \E fault \in IoFaults, pos \in 1..(Len(table) + 1) :
              LET args == parseArgs(req.route.params, req.context)
                  r == CrudFn(req.route.fn, args, backend, StoreOf, req.route.model,
                              now, pos, fault)
              IN /\ Len(r.st.contents) <= MaxRecords
                 /\ Len(r.st.table) <= MaxRecords
                 /\ r.st.uuids <= MaxUuid
                 /\ contents' = r.st.contents
                 /\ file' = r.st.file
                 /\ table' = r.st.table
                 /\ uuids' = r.st.uuids
                 /\ http' = Respond(r.resp)
                 /\ req' = [req EXCEPT !.stage = "done", !.marshalled = TRUE,
                                       !.handlerCalled = TRUE]
    /\ UNCHANGED <<backend, now, callVars, writes, globalAuthFn, routes, catalog>>

\* the client has its response, or gives up waiting for one
ReqClose ==
    /\ req.stage = "done"
    /\ req' = NoReq
    /\ http' = NoHttp
    /\ UNCHANGED <<storeVars, callVars, writes, globalAuthFn, routes, catalog>>

\* a millisecond passes while the server runs
ServerTick ==
    /\ now < MaxClock
    /\ now' = now + 1
    /\ UNCHANGED <<backend, contents, file, table, uuids, callVars, serverVars, writes>>

NextServer ==
    \/ ServerTick
    \/ Auth
    \/ Method
    \/ ReqStart
    \/ ReqDenied
    \/ ReqHandled
    \/ ReqClose

SpecServer == Init /\ [][NextServer]_vars

(***************************************************************************)
(* The claims about the object store.  A read that follows an operation is *)
(* the read operation of the same adapter on the store the operation left. *)
(***************************************************************************)
ReadById(cs, tb, className, id) ==
    IF backend = "file" THEN FileDB_findById(cs, className, id)
    ELSE DynamoModel_findById(tb, className, id, FALSE)

ReadAll(cs, tb, className) ==
    IF backend = "file" THEN FileDB_findAll(cs, className)
    ELSE DynamoModel_findAll(tb, className, FALSE)

PutAgain(cs, fl, tb, className, obj) ==
    IF backend = "file" THEN FileDB_put(cs, fl, className, obj, FALSE).resp
    ELSE DynamoModel_put(tb, className, obj, 1, FALSE).resp

\* some stored record, of whatever class, has this id
IdStored(cs, tb, id) ==
    IF backend = "file" THEN \E i \in DOMAIN cs : Get(cs[i], "id") = id
    ELSE \E i \in DOMAIN tb : tb[i].id = id

\* a record of this class has this id
IdStoredIn(cs, tb, className, id) ==
    IF backend = "file"
    THEN \E i \in DOMAIN cs : Get(cs[i], "id") = id /\ Get(cs[i], "class") = Str(className)
    ELSE \E i \in DOMAIN tb : tb[i].id = id /\ tb[i].className = Str(className)

\* the operation op has just settled
Settled(op) == call.op = op /\ resp.kind # "none"

\* C1: create(a) resolves with a record r whose id is defined, and a
\* findById(r.id) that follows on the same className returns a plus that id
\* (the class tag that FileDB keeps on its records is not counted).
C1_CreateThenRead ==
    (Settled("create") /\ resp.kind = "resolve") =>
        LET a == call.arg[1]
            id == Get(resp.val[1], "id")
            read == ReadById(contents, table, call.className, id)
        IN /\ id # Undefined
           /\ read.kind = "resolve"
           /\ DeleteKey(read.val[1], "class") = SetKey(a, "id", id)

\* C2: an upsert of an object whose id matches no stored record fails and
\* leaves the stored records unchanged.
C2_UpsertRequiresExistence ==
    [][(/\ Idle
        /\ call'.op = "put"
        /\ ~IdStored(contents, table, Get(call'.arg[1], "id")))
       => (/\ resp'.kind = "reject"
           /\ contents' = contents
           /\ table' = table)]_vars

\* C3: after upsert(o) succeeds for an id that exists under className C,
\* findById(o.id) under C returns exactly o, findAll(C) has that id, and a
\* second upsert of o under C succeeds.
C3_UpsertThenRead ==
    [][(/\ Idle
        /\ call'.op = "put"
        /\ resp'.kind = "resolve"
        /\ IdStoredIn(contents, table, call'.className, Get(call'.arg[1], "id")))
       => LET o == call'.arg[1]
              read == ReadById(contents', table', call'.className, Get(o, "id"))
              all == ReadAll(contents', table', call'.className).val
          IN /\ read.kind = "resolve"
             /\ read.val[1] = o
             /\ \E i \in DOMAIN all : Get(all[i], "id") = Get(o, "id")
             /\ PutAgain(contents', file', table', call'.className, o).kind = "resolve"]_vars

\* a record has, for every key of fields, a value of the same type and value
ExactMatch(record, fields) ==
    \A k \in DOMAIN fields : k \in DOMAIN record /\ record[k] = fields[k]

\* C4: findByFields(fields) returns exactly the records of the className
\* whose value is exactly equal (same type, same value) to fields[k] for
\* every key k of fields.
C4_ExactMatchSearch ==
    Settled("findByFields") =>
        LET Exact(record) == ExactMatch(record, call.arg[1])
        IN /\ resp.kind = "resolve"
           /\ resp.val = SelectSeq(ReadAll(contents, table, call.className).val, Exact)

\* C5: findByFields with an empty fields object returns the same records as
\* findAll for the same className.
C5_EmptyFieldsIsFindAll ==
    (Settled("findByFields") /\ call.arg[1] = EmptyObj) =>
        resp = ReadAll(contents, table, call.className)

\* C5 happens: the empty search has returned records while the table also
\* holds a record of another class.
C5_Witness ==
    /\ Settled("findByFields")
    /\ call.arg[1] = EmptyObj
    /\ Len(resp.val) >= 1
    /\ Len(contents) + Len(table) > Len(resp.val)

\* C6: findByIds(ids) resolves with a sequence as long as ids whose i-th
\* element is the record with id ids[i], or the marker undefined when the
\* className has no such record.
C6_MultiGet ==
    Settled("findByIds") =>
        LET ids == call.arg
            all == ReadAll(contents, table, call.className).val
        IN /\ resp.kind = "resolve"
           /\ Len(resp.val) = Len(ids)
           /\ \A i \in DOMAIN ids :
                IF \E j \in DOMAIN all : Get(all[j], "id") = ids[i]
                THEN \E j \in DOMAIN all : all[j] = resp.val[i] /\ Get(all[j], "id") = ids[i]
                ELSE resp.val[i] = Undefined

\* C7: after deleteById(id) succeeds, findById(id) does not find a record
\* and findAll has no record with that id.
C7_DeleteVisibility ==
    (Settled("deleteById") /\ resp.kind = "resolve") =>
        LET id == call.arg[1]
            all == ReadAll(contents, table, call.className).val
        IN /\ ReadById(contents, table, call.className, id).kind # "resolve"
           /\ ~ \E i \in DOMAIN all : Get(all[i], "id") = id

\* C8: deleteById of an id that no record of the className has does not
\* report success, and leaves the store unchanged.
C8_DeleteAbsent ==
    [][(/\ Idle
        /\ call'.op = "deleteById"
        /\ ~IdStoredIn(contents, table, call'.className, call'.arg[1]))
       => (/\ resp'.kind = "reject"
           /\ contents' = contents
           /\ table' = table)]_vars

(***************************************************************************)
(* The claims about the authorization gate.                                *)
(***************************************************************************)

\* the predicate pred, called with this context, throws or returns a falsy value
PredicateFails(pred, context) ==
    PredOutcome(pred, context).thrown \/ Falsy(PredOutcome(pred, context).value)

\* the predicate the route's requests are to be checked with: the route's
\* own, else the global one set when the request arrived, else none
ApplicablePredicate(route, globalAtRequest) ==
    IF route.fnAuth # None THEN route.fnAuth ELSE globalAtRequest

\* C9: when a predicate applies to a route and it throws or returns a falsy
\* value, the response is a 401 error response, and the arguments are not
\* marshaled, the handler is not called and the store is not touched.
C9_AuthGate ==
    [][(/\ req.stage = "auth"
        /\ req'.stage = "done"
        /\ req.authFn # None
        /\ PredicateFails(req.authFn, req.context))
       => (/\ http'.kind = "error"
           /\ http'.status = 401
           /\ http'.error.code = 401
           /\ ~req'.marshalled
           /\ ~req'.handlerCalled
           /\ UNCHANGED <<contents, file, table, uuids>>)]_vars

\* C9 happens: a request whose predicate threw was answered 401 while the
\* store holds a record, and its body would have been a valid create
C9_Witness ==
    /\ req.stage = "done"
    /\ req.authFn = "throws"
    /\ req.context.body.kind = "object"
    /\ http.status = 401
    /\ Len(contents) + Len(table) >= 1

\* C10: a request is checked with the route's own predicate if it was given
\* one, else with the global predicate as it is when the request arrives
\* (whatever it was when the route was registered), else with none: it is
\* answered 401 exactly when that predicate fails, and else the handler runs.
C10_PredicateSelection ==
    req.stage \in {"auth", "done"} =>
        LET pred == ApplicablePredicate(req.route, req.globalAtStart)
            fails == pred # None /\ PredicateFails(pred, req.context)
        IN /\ req.authFn = pred
           /\ req.stage = "done" =>
                /\ (http.status = 401) <=> fails
                /\ req.marshalled <=> ~fails
                /\ req.handlerCalled <=> ~fails

\* C10 happens: a route registered without a predicate of its own, when no
\* global predicate was set, answers 401 under the global predicate set later
C10_Witness ==
    /\ req.stage = "done"
    /\ req.route.fnAuth = None
    /\ ~req.route.hadGlobal
    /\ req.globalAtStart = "denyAll"
    /\ http.status = 401

(***************************************************************************)
(* Registration: the application registers methods of its own with any     *)
(* verb and parameter list, and the CRUD methods of its models.            *)
(***************************************************************************)

\* the verbs applications register methods with; PATCH is not one that
\* ReactServer.method installs
RegisterVerbs == {"POST", "PATCH"}

\* the parameter lists of the metadata applications register methods with
RegisterParams ==
    {<<Param("record", "body", "object")>>,
     <<Param("id", "param", "string"), Param("user", "session", "object")>>,
     <<Param("record", "header", "object")>>,
     <<Param("", "body", "object")>>}

\* model.method(path, verb, metadata, fn, authFn) with any verb and metadata
RegisterMethod ==
    /\ Cardinality({i \in DOMAIN catalog : catalog[i].path = CustomPath}) < MaxCustom
    /\ \E model \in ServedModels, verb \in RegisterVerbs, params \in RegisterParams,
          fnAuth \in {None, "denyAll"} :
         LET sv == method([routes |-> routes, catalog |-> catalog], model, CustomPath, verb,
                          params, "create", fnAuth, globalAuthFn)
         IN /\ routes' = sv.routes
            /\ catalog' = sv.catalog
    /\ UNCHANGED <<storeVars, callVars, writes, globalAuthFn, req, http>>

NextRegister ==
    \/ Auth
    \/ AddCrudMethods
    \/ RegisterMethod

SpecRegister == Init /\ [][NextRegister]_vars

\* the source/type list of a parameter list
SourceTypes(params) == [i \in DOMAIN params |-> <<params[i].source, params[i].type>>]

CodecAttrs ==
    {EmptyObj, [a |-> Num("1")], [a |-> Str("1")], [b |-> Num("2")],
     [a |-> Num("1"), b |-> Num("2")], [a |-> Num("1"), b |-> Num("3")],
     [name |-> Str("")], [a |-> Bool("false"), name |-> Str("x")]}

\* flat objects: the attributes with the id merged in, and objects without id
CodecIds == {Str(Uuid(1)), Str(TimeToString(1))}
FlatObjects == {SetKey(a, "id", id) : a \in CodecAttrs, id \in CodecIds}
CodecInputs == FlatObjects \cup CodecAttrs

Codecs == {"db-dynamo", "model-db"}
TagOp(codec) == IF codec = "db-dynamo" THEN "restoreModel" ELSE "DbModel_restoreModel"
FlattenOp(tagOp) == IF tagOp = "restoreModel" THEN "flattenModel" ELSE "DbModel_flattenModel"

\* restoreModel(className, obj) / restoreModel(obj) of a model named className
CodecTag ==
    /\ Idle
    /\ \E codec \in Codecs, className \in ClassNames, f \in CodecInputs :
         /\ call' = Call(TagOp(codec), className, <<f>>)
         /\ resp' = Resolve("stored",
                            <<IF codec = "db-dynamo" THEN restoreModel(className, f)
                              ELSE DbModel_restoreModel(className, f)>>)
    /\ UNCHANGED <<storeVars, serverVars, writes>>

\* flattenModel(dbObj) of the tagged object
CodecFlatten ==
    /\ call.op \in {TagOp(codec) : codec \in Codecs}
    /\ call' = [call EXCEPT !.op = FlattenOp(call.op)]
    /\ resp' = Resolve("object",
                       <<IF call.op = "restoreModel" THEN flattenModel(resp.val[1])
                         ELSE DbModel_flattenModel(resp.val[1])>>)
    /\ UNCHANGED <<storeVars, serverVars, writes>>

NextCodec ==
    \/ CodecTag
    \/ CodecFlatten
    \/ Return

SpecCodec == Init /\ [][NextCodec]_vars

\* C12: for a flat object f (attributes with the id merged in), the tagged
\* form carries f's id and the className it was tagged with, and flattening
\* the tagged form gives f back, same keys and same values; for the codec of
\* db-dynamo and for the codec of model-db.
C12_RoundTrip ==
    /\ (call.op \in {"restoreModel", "DbModel_restoreModel"} /\ call.arg[1] \in FlatObjects) =>
          /\ resp.val[1].className = Str(call.className)
          /\ resp.val[1].id = call.arg[1].id
    /\ (call.op \in {"flattenModel", "DbModel_flattenModel"} /\ call.arg[1] \in FlatObjects) =>
          /\ DOMAIN resp.val[1] = DOMAIN call.arg[1]
          /\ resp.val[1] = call.arg[1]

\* C12 happens: the codec of model-db has flattened the tagged form of a
\* flat object with an id and two attributes
C12_Witness ==
    /\ call.op = "DbModel_flattenModel"
    /\ call.arg[1] \in FlatObjects
    /\ Cardinality(DOMAIN call.arg[1]) = 3
    /\ resp.kind = "resolve"

(***************************************************************************)
(* Further claims about the object store.                                  *)
(***************************************************************************)

\* the ids of the stored records, in storage order
FileIdsStored(cs) == [i \in DOMAIN cs |-> Get(cs[i], "id")]
TableIdsStored(tb) == [i \in DOMAIN tb |-> tb[i].id]

\* no two elements of the sequence are equal
Distinct(seq) == \A i, j \in DOMAIN seq : i # j => seq[i] # seq[j]

\* C13: no two stored records have the same id, whatever creates came
\* before (two creates in the same clock tick included), and a stored record
\* keeps its id through every operation that does not delete it.
C13_IdUniqueness ==
    /\ [](Distinct(FileIdsStored(contents)) /\ Distinct(TableIdsStored(table)))
    /\ [][call'.op # "deleteById" =>
            /\ \A i \in DOMAIN contents :
                  i \in DOMAIN contents' /\ Get(contents'[i], "id") = Get(contents[i], "id")
            /\ \A i \in DOMAIN table :
                  \E j \in DOMAIN table' : table'[j].id = table[i].id]_vars

(***************************************************************************)
(* Creates whose bodies may carry an id, on each of the three stacks.      *)
(***************************************************************************)
Stacks == {"file", "dynamo", "model-db"}

\* the bodies of the creates: with and without an id; the ids callers send
\* include ones the backend is about to generate
CallerIds == {Str(TimeToString(1)), Str(TimeToString(2)), Str(Uuid(1)), Str(Uuid(2)), Str("mine")}
CallerObjects ==
    {[a |-> Num("1")]} \cup {[a |-> Num("1"), id |-> id] : id \in CallerIds}

InitStacks ==
    /\ backend \in Stacks
    /\ now = 1
    /\ contents = <<>>
    /\ file = <<>>
    /\ table = <<>>
    /\ uuids = 0
    /\ call = Call("none", "", <<>>)
    /\ resp = NoResponse
    /\ globalAuthFn = None
    /\ routes = <<>>
    /\ catalog = <<>>
    /\ req = NoReq
    /\ http = NoHttp
    /\ writes = <<>>

\* create(className, data) of the stack in use
CreateWith ==
    /\ Idle
    /\ Len(contents) < MaxRecords
    /\ Len(table) < MaxRecords
    /\ uuids < MaxUuid
    /\ \E className \in ClassNames, data \in CallerObjects, fault \in IoFaults :
       \E pos \in 1..(Len(table) + 1) :
         /\ call' = Call("create", className, <<data>>)
         /\ IF backend = "file"
            THEN LET r == FileDB_create(contents, file, className, data, now, fault)
                 IN /\ contents' = r.contents
                    /\ file' = r.file
                    /\ resp' = r.resp
                    /\ UNCHANGED <<table, uuids>>
            ELSE LET r == IF backend = "dynamo"
                          THEN DynamoModel_create(table, className, data, Uuid(uuids + 1), pos, fault)
                          ELSE DbModel_create(table, className, data, Uuid(uuids + 1), pos, fault)
                 IN /\ table' = r.table
                    /\ resp' = r.resp
                    /\ uuids' = uuids + 1
                    /\ UNCHANGED <<contents, file>>
    /\ UNCHANGED <<backend, now, serverVars, writes>>

NextCreate ==
    \/ CreateWith
    \/ Return
    \/ Tick

SpecCreate == InitStacks /\ [][NextCreate]_vars

\* the id the backend generates for a create at time time, the n-th uuid drawn
GeneratedId(time, n) == IF backend = "file" THEN Str(TimeToString(time)) ELSE Str(Uuid(n))

\* C14: whatever the body of a create holds, an id key or none, the created
\* record has the id the backend generated, and the stored record holds the
\* body's attributes without the caller's id.
C14_CreateIgnoresCallerId ==
    [][(Idle /\ call'.op = "create" /\ resp'.kind = "resolve") =>
         LET attrs == DeleteKey(call'.arg[1], "id")
             id == GeneratedId(now, uuids + 1)
             last == contents'[Len(contents')]
         IN /\ resp'.val[1].id = id
            /\ DeleteKey(DeleteKey(resp'.val[1], "id"), "class") = attrs
            /\ IF backend = "file"
               THEN /\ Len(contents') = Len(contents) + 1
                    /\ Get(last, "id") = id
                    /\ DeleteKey(DeleteKey(last, "id"), "class") = attrs
               ELSE \E i \in DOMAIN table' :
                       /\ table'[i].id = id
                       /\ table'[i].attributes = attrs
                       /\ \A j \in DOMAIN table' : table'[j].id = id => j = i]_vars

\* C14 happens: a create through DbModel whose body carried an id of the
\* caller's own has settled
C14_Witness ==
    /\ Settled("create")
    /\ resp.kind = "resolve"
    /\ backend = "model-db"
    /\ "id" \in DOMAIN call.arg[1]
    /\ call.arg[1].id = Str("mine")
    /\ Len(table) = 2

\* a record with this id is stored under a className other than className
StoredUnderOther(cs, tb, className, id) ==
    IF backend = "file"
    THEN \E i \in DOMAIN cs :
            /\ Get(cs[i], "id") = id
            /\ Get(cs[i], "class") \in {Str(c) : c \in ClassNames \ {className}}
    ELSE \E i \in DOMAIN tb :
            /\ tb[i].id = id
            /\ tb[i].className \in {Str(c) : c \in ClassNames \ {className}}

\* C15: an upsert under className C of an id whose stored record belongs to
\* another className is rejected, and the stored records stay as they are.
C15_UpsertClassMismatch ==
    [][(/\ Idle
        /\ call'.op = "put"
        /\ StoredUnderOther(contents, table, call'.className, Get(call'.arg[1], "id")))
       => (/\ resp'.kind = "reject"
           /\ contents' = contents
           /\ file' = file
           /\ table' = table)]_vars

(***************************************************************************)
(* FileDB and a caller that changes the objects it was handed.  An object  *)
(* a promise resolves with is either a fresh object or the very object     *)
(* that the table holds.                                                   *)
(***************************************************************************)

\* the index in contents of the table entry that the k-th object of the
\* settled response is, or 0 when that object is not an entry of the table:
\* create pushes entry and resolves with entry; put resolves with the
\* caller's updateEntry and stores a copy; the reads resolve with copies
SharedEntry(k) ==
    IF call.op = "create" /\ resp.kind = "resolve" /\ backend = "file"
    THEN Len(contents)
    ELSE 0

\* the value callers write into a property of an object they were handed
CallerValue == Num("9")

\* the caller sets the property a of an object the promise resolved with
CallerMutates ==
    /\ ~Idle
    /\ resp.kind = "resolve"
    /\ resp.shape \in {"object", "array"}
    /\ \E k \in DOMAIN resp.val :
         /\ resp.val[k] # Undefined
         /\ Get(resp.val[k], "a") # CallerValue
         /\ resp' = [resp EXCEPT !.val[k] = SetKey(resp.val[k], "a", CallerValue)]
         /\ contents' = IF SharedEntry(k) = 0 THEN contents
                        ELSE [contents EXCEPT ![SharedEntry(k)] =
                                  SetKey(contents[SharedEntry(k)], "a", CallerValue)]
    /\ UNCHANGED <<backend, now, file, table, uuids, call, serverVars, writes>>

InitFile == Init /\ backend = "file"

NextAlias ==
    \/ File_create
    \/ File_put
    \/ File_findByIds
    \/ File_findById
    \/ File_findAll
    \/ File_findByFields
    \/ File_deleteById
    \/ CallerMutates
    \/ Return
    \/ Tick

SpecAlias == InitFile /\ [][NextAlias]_vars

\* C16: when a caller changes an object that an operation of FileDB returned
\* to it, what the reads return and what is written to the file stay as
\* they were.
C16_NoAliasing ==
    [][(~Idle /\ call' = call /\ resp'.val # resp.val) =>
         /\ \A className \in ClassNames :
               FileDB_findAll(contents', className) = FileDB_findAll(contents, className)
         /\ Serialize(contents') = Serialize(contents)
         /\ file' = file]_vars

\* C17: the class tag of a stored record is the className it was created
\* under: a create stores its record with the className of the call, and no
\* operation that keeps a record changes its class tag, whatever the bodies
\* of the creates and upserts hold.
C17_ClassNameFixed ==
    [][/\ (Idle /\ call'.op = "create" /\ resp'.kind = "resolve") =>
            IF backend = "file"
            THEN Get(contents'[Len(contents')], "class") = Str(call'.className)
            ELSE \E i \in DOMAIN table' :
                    /\ table'[i].id = Get(resp'.val[1], "id")
                    /\ table'[i].className = Str(call'.className)
       /\ call'.op # "deleteById" =>
            /\ \A i \in DOMAIN contents :
                  /\ i \in DOMAIN contents'
                  /\ Get(contents'[i], "class") = Get(contents[i], "class")
            /\ \A i \in DOMAIN table :
                  \E j \in DOMAIN table' :
                     /\ table'[j].id = table[i].id
                     /\ table'[j].className = table[i].className]_vars

(***************************************************************************)
(* The operations of DbModel, called by the application: one DbModel per   *)
(* className, all of them on the same table.                               *)
(***************************************************************************)
InitDbModel == InitStacks /\ backend = "model-db"

Db_create ==
    /\ Idle
    /\ Len(table) < MaxRecords
    /\ uuids < MaxUuid
    /\ \E modelName \in ClassNames, data \in AttrObjects, aerr \in IoFaults :
       \E pos \in Positions(table, Str(Uuid(uuids + 1))) :
         LET r == DbModel_create(table, modelName, data, Uuid(uuids + 1), pos, aerr)
         IN /\ table' = r.table
            /\ resp' = r.resp
            /\ call' = Call("create", modelName, <<data>>)
    /\ uuids' = uuids + 1
    /\ UNCHANGED <<backend, now, contents, file, serverVars, writes>>

Db_put ==
    /\ Idle
    /\ \E modelName \in ClassNames, data \in DynamoUpdates, aerr \in IoFaults :
       \E pos \in Positions(table, Get(data, "id")) :
         LET r == DbModel_put(table, modelName, data, pos, aerr)
         IN /\ Len(r.table) <= MaxRecords
            /\ table' = r.table
            /\ resp' = r.resp
            /\ call' = Call("put", modelName, <<data>>)
    /\ UNCHANGED <<backend, now, contents, file, uuids, serverVars, writes>>

Db_findByIds ==
    /\ Idle
    /\ \E modelName \in ClassNames, ids \in DynamoIdLists, aerr \in IoFaults :
         /\ resp' = DbModel_findByIds(table, modelName, ids, aerr)
         /\ call' = Call("findByIds", modelName, ids)
    /\ UNCHANGED <<storeVars, serverVars, writes>>

Db_findById ==
    /\ Idle
    /\ \E modelName \in ClassNames, id \in DynamoIds, aerr \in IoFaults :
         /\ resp' = DbModel_findById(table, modelName, id, aerr)
         /\ call' = Call("findById", modelName, <<id>>)
    /\ UNCHANGED <<storeVars, serverVars, writes>>

Db_findAll ==
    /\ Idle
    /\ \E modelName \in ClassNames, aerr \in IoFaults :
         /\ resp' = DbModel_findAll(table, modelName, aerr)
         /\ call' = Call("findAll", modelName, <<>>)
    /\ UNCHANGED <<storeVars, serverVars, writes>>

Db_findByFields ==
    /\ Idle
    /\ \E modelName \in ClassNames, fields \in FieldObjects, aerr \in IoFaults :
         /\ resp' = DbModel_findByFields(table, modelName, fields, aerr)
         /\ call' = Call("findByFields", modelName, <<fields>>)
    /\ UNCHANGED <<storeVars, serverVars, writes>>

Db_deleteById ==
    /\ Idle
    /\ \E modelName \in ClassNames, id \in DynamoIds, aerr \in IoFaults :
         LET r == DbModel_deleteById(table, modelName, id, aerr)
         IN /\ table' = r.table
            /\ resp' = r.resp
            /\ call' = Call("deleteById", modelName, <<id>>)
    /\ UNCHANGED <<backend, now, contents, file, uuids, serverVars, writes>>

NextDbModel ==
    \/ Db_create
    \/ Db_put
    \/ Db_findByIds
    \/ Db_findById
    \/ Db_findAll
    \/ Db_findByFields
    \/ Db_deleteById
    \/ Return

SpecDbModel == InitDbModel /\ [][NextDbModel]_vars

\* the stored records of the classNames other than className, in order
RecordsOfOthers(tb, className) ==
    LET Other(item) == item.className # Str(className)
    IN SelectSeq(tb, Other)

\* C18: an operation issued through the model of className A returns only
\* records tagged A, and leaves the records of every other className as
\* they are.
C18_ScopedToClassName ==
    [][(Idle /\ call'.op # "none") =>
         /\ RecordsOfOthers(table', call'.className) = RecordsOfOthers(table, call'.className)
         /\ (/\ call'.op \in {"findById", "findByIds", "findAll", "findByFields"}
             /\ resp'.kind = "resolve") =>
               \A k \in DOMAIN resp'.val :
                  \E i \in DOMAIN table :
                     /\ table[i].id = Get(resp'.val[k], "id")
                     /\ table[i].className = Str(call'.className)]_vars

(***************************************************************************)
(* The CRUD routes of a model on each of the three stacks: the application *)
(* sets or clears the global authorization function, adds the CRUD methods *)
(* of the model, and clients send requests one at a time.                  *)
(***************************************************************************)
NextCrud ==
    \/ Auth
    \/ AddCrudMethods
    \/ ReqStart
    \/ ReqDenied
    \/ ReqHandled
    \/ ReqClose
    \/ ServerTick

SpecCrud == InitStacks /\ [][NextCrud]_vars

\* the handler of the route bound to fn has run for the current request
Handled(fn) == req.stage = "done" /\ req.route.fn = fn /\ req.handlerCalled

\* the id of the path of the current request
PathId == Get(req.context.params, "id")

\* C19: GET /B/P/:id/exists answers with a boolean: true when a record of
\* the model has the id, and false, not an error, when none has.
C19_ExistsAnswersBoolean ==
    Handled("existsById") =>
        /\ http.status = 200
        /\ http.kind = "boolean"
        /\ http.val = <<IF IdStoredIn(contents, table, req.route.model, PathId)
                        THEN JsTrue ELSE JsFalse>>

\* C20: an error response carries {code, message} with an integer code that
\* is also the status, 401 for a failed authorization and 500 for a failed
\* handler, and a message that is a string, whatever the handler or the
\* adapter rejected with.
C20_ErrorShape ==
    http.kind = "error" =>
        /\ http.error.code = http.status
        /\ http.status = (IF req.handlerCalled \/ req.marshalled THEN 500 ELSE 401)
        /\ http.error.message.t = "string"

(***************************************************************************)
(* Registration with malformed metadata or a refused verb.                 *)
(***************************************************************************)

\* a parameter list that the marshaler accepts
WellFormed(params) == ~parseArgsThrows(params)

\* C21: a registration whose parameter list has an entry without a name or
\* with a source that is not param, query, body or session fails when it
\* is made: no installed route and no catalog entry has such a list.
C21_ConfigErrorFailsFast ==
    /\ \A i \in DOMAIN routes : WellFormed(routes[i].params)
    /\ \A j \in DOMAIN catalog : WellFormed(catalog[j].params)

\* C29: the catalog has an entry only for routes that were installed: each
\* entry has an installed route of the same model, path and verb.
C29_NoPhantomEntries ==
    \A j \in DOMAIN catalog :
        \E i \in DOMAIN routes :
            /\ routes[i].model = catalog[j].model
            /\ routes[i].path = catalog[j].path
            /\ routes[i].verb = catalog[j].verb

(***************************************************************************)
(* The marshaler on its own: parseArgs of a well-formed parameter list and *)
(* a request context.                                                      *)
(***************************************************************************)

\* the longest parameter list marshaled
MaxParams == 2

\* the entries of the parameter lists: the names are also properties of
\* the params, the query, the body and the session of the contexts
MarshalNames == {"id", "record"}
MarshalEntries == {Param(name, source, "string") : name \in MarshalNames, source \in Sources}

\* the sequences over a set, up to a length
RECURSIVE SeqsUpTo(_, _)
SeqsUpTo(S, n) ==
    IF n = 0 THEN {<<>>}
    ELSE LET shorter == SeqsUpTo(S, n - 1)
         IN shorter \cup {Append(q, x) : q \in {r \in shorter : Len(r) = n - 1}, x \in S}

MarshalParams == SeqsUpTo(MarshalEntries, MaxParams)

\* the request contexts; each part has its own value for a name
MarshalContexts ==
    {[session |-> session, query |-> query, params |-> params, body |-> body] :
        session \in {EmptyObj, [user |-> Str("bob"), id |-> Str("s")]},
        query \in {EmptyObj, [id |-> Str("q")]},
        params \in {EmptyObj, [id |-> Str("p")]},
        body \in {NoBody, ObjBody([id |-> Str("b"), record |-> Num("1")]),
                  ArrBody(<<Str("b")>>)}}

\* the handler built by ModelServer.method marshals the arguments
Marshal ==
    /\ Idle
    /\ \E params \in MarshalParams, context \in MarshalContexts :
         /\ ~parseArgsThrows(params)
         /\ call' = Call("parseArgs", "", <<params, context>>)
         /\ resp' = Resolve("array", parseArgs(params, context))
    /\ UNCHANGED <<storeVars, serverVars, writes>>

NextMarshal ==
    \/ Marshal
    \/ Return

SpecMarshal == Init /\ [][NextMarshal]_vars

\* the value of a property as an argument: nothing when it is absent
PropertyArg(obj, name) ==
    IF name \in DOMAIN obj THEN [kind |-> "value", val |-> <<obj[name]>>]
    ELSE [kind |-> "undefined", val |-> <<>>]

\* C22: for a well-formed parameter list of length n and a context, the
\* marshaler gives n arguments; argument i is the path parameter or the
\* query parameter named by entry i, the whole body, or the session,
\* according to the source of entry i.
C22_ArgumentMarshaling ==
    call.op = "parseArgs" =>
        LET params == call.arg[1]
            context == call.arg[2]
            args == resp.val
        IN /\ Len(args) = Len(params)
           /\ \A i \in DOMAIN params :
                CASE params[i].source = "param" ->
                       args[i] = PropertyArg(context.params, params[i].name)
                  [] params[i].source = "query" ->
                       args[i] = PropertyArg(context.query, params[i].name)
                  [] params[i].source = "body" -> args[i] = context.body
                  [] OTHER -> args[i] = [kind |-> "object", val |-> <<context.session>>]

\* C22 happens: a list of a body parameter and a path parameter was
\* marshaled from a context whose body has a property with the body
\* parameter's name
C22_Witness ==
    /\ call.op = "parseArgs"
    /\ Len(call.arg[1]) = 2
    /\ call.arg[1][1].source = "body"
    /\ call.arg[1][2].source = "param"
    /\ call.arg[2].body.kind = "object"
    /\ call.arg[1][1].name \in DOMAIN call.arg[2].body.val[1]
    /\ Len(resp.val) = 2

(***************************************************************************)
(* The CRUD routes of the models of the application: each model is         *)
(* extended by the server and adds its CRUD methods once; the application  *)
(* also registers methods of its own.                                      *)
(***************************************************************************)
CrudModels == DOMAIN ModelPlurals

\* model.addCrudMethods() of an extended model
ExtendCrud ==
    /\ \E model \in CrudModels :
         /\ ~ \E i \in DOMAIN catalog : catalog[i].model = model /\ catalog[i].path # CustomPath
         /\ LET sv == addCrudMethods([routes |-> routes, catalog |-> catalog], model, globalAuthFn)
            IN /\ routes' = sv.routes
               /\ catalog' = sv.catalog
    /\ UNCHANGED <<storeVars, callVars, writes, globalAuthFn, req, http>>

NextRoutes ==
    \/ Auth
    \/ ExtendCrud
    \/ RegisterMethod

SpecRoutes == Init /\ [][NextRoutes]_vars

\* the route table for the path B/P: verb, path, operation and the source
\* of each argument of the operation
RouteTable(BP) ==
    {<<"GET", BP, "findAll", <<>>>>,
     <<"POST", BP, "create", <<"body">>>>,
     <<"PUT", BP, "put", <<"body">>>>,
     <<"POST", BP \o "/findByFields", "findByFields", <<"body">>>>,
     <<"POST", BP \o "/findByIds", "findByIds", <<"body">>>>,
     <<"GET", BP \o "/:id", "findById", <<"param">>>>,
     <<"DELETE", BP \o "/:id", "deleteById", <<"param">>>>,
     <<"GET", BP \o "/:id/exists", "existsById", <<"param">>>>}

\* the CRUD routes installed for a model, and each as a row of the table
CrudRoutesOf(model) ==
    {i \in DOMAIN routes : routes[i].model = model /\ routes[i].path # CustomPath}
RowOf(route) ==
    <<route.verb, route.fullPath, route.fn,
      [k \in DOMAIN route.params |-> route.params[k].source]>>

\* C23: once a model has added its CRUD methods, the routes installed for
\* it are exactly the eight routes of the route table under B/P, each bound
\* to its operation, where P is the plural name the model was given, or
\* its name plus 's'.
C23_CrudRouteTable ==
    \A model \in CrudModels :
        CrudRoutesOf(model) # {} =>
            /\ Cardinality(CrudRoutesOf(model)) = 8
            /\ {RowOf(routes[i]) : i \in CrudRoutesOf(model)} =
                  RouteTable(IF model = "Person" THEN "/api/People" ELSE "/api/As")

\* C23 happens: a model with a plural name of its own and a model without
\* one have both added their CRUD methods
C23_Witness ==
    /\ \E i \in DOMAIN routes : routes[i].fullPath = "/api/People/:id/exists"
    /\ \E i \in DOMAIN routes : routes[i].fullPath = "/api/As/findByIds"

(***************************************************************************)
(* Further claims about the CRUD routes.                                   *)
(***************************************************************************)

\* C24: a deleteById that succeeds through a model wrapper (DynamoModel or
\* DbModel), and so through the route DELETE B/P/:id, answers the boolean
\* true.
C24_DeleteAnswersTrue ==
    (Handled("deleteById") /\ backend \in {"dynamo", "model-db"} /\ http.status = 200) =>
        /\ http.kind = "boolean"
        /\ http.val = <<JsTrue>>

\* C27: every request to a registered route gets a response, a result or
\* an error, whatever the authorization function, the handler and the
\* adapter do: a request that was served to its end was answered.
C27_RequestAnswered == req.stage = "done" => http.kind # "none"

(***************************************************************************)
(* The scan of findByFields, in both copies of the remote adapter: the     *)
(* request handed to client.scan.  The text of a filter expression is the  *)
(* sequence of its tokens.                                                 *)
(***************************************************************************)

\* the order for-in visits the properties of a fields object in
FieldOrder == <<"a", "className">>

\* filterExpression: "className = :className", then for each own property
\* of fields, " AND attributes.${name} = :${name}"
RECURSIVE filterExpression(_, _)
filterExpression(fields, n) ==
    IF n = 0 THEN <<"className", "=", ":className">>
    ELSE LET name == FieldOrder[n]
             before == filterExpression(fields, n - 1)
         IN IF name \in DOMAIN fields
            THEN before \o <<"AND", "attributes", ".", name, "=", Placeholder(name)>>
            ELSE before

\* the params of client.scan
scanParams(className, fields) ==
    [FilterExpression |-> filterExpression(fields, Len(FieldOrder)),
     ExpressionAttributeValues |-> FieldValues(className, fields)]

\* the attributes of the records and the fields searched with: className is
\* also the name of an attribute
FilterAttrs == {[a |-> Num("1")], [a |-> Num("1"), className |-> Str("B")]}
FilterFields == {EmptyObj, [a |-> Num("1")], [className |-> Str("B")],
                 [a |-> Num("1"), className |-> Str("B")]}
Impls == {"dbimpl", "part_000"}

\* create(className, attributes) of the adapter
Filter_create ==
    /\ Idle
    /\ Len(table) < MaxRecords
    /\ uuids < MaxUuid
    /\ \E className \in ClassNames, attributes \in FilterAttrs, aerr \in IoFaults :
       \E pos \in Positions(table, Str(Uuid(uuids + 1))) :
         LET r == DynomoImpl_create(table, className, attributes, Uuid(uuids + 1), pos, aerr)
         IN /\ table' = r.table
            /\ resp' = r.resp
            /\ call' = Call("create", className, <<attributes>>)
    /\ uuids' = uuids + 1
    /\ UNCHANGED <<backend, now, contents, file, serverVars, writes>>

\* findByFields(className, fields) of either copy of the adapter
Filter_findByFields ==
    /\ Idle
    /\ \E impl \in Impls, className \in ClassNames, fields \in FilterFields, aerr \in IoFaults :
         /\ resp' = IF impl = "dbimpl"
                    THEN DynomoImpl_findByFields(table, className, fields, aerr)
                    ELSE DynamoModel0_findByFields(table, className, fields, aerr)
         /\ call' = Call("findByFields", className, <<fields, scanParams(className, fields)>>)
    /\ UNCHANGED <<storeVars, serverVars, writes>>

NextFilter ==
    \/ Filter_create
    \/ Filter_findByFields
    \/ Return

\* the application is built with the remote adapter
InitFilter == Init /\ backend = "dynamo"

SpecFilter == InitFilter /\ [][NextFilter]_vars

\* C25: no field name and no value of the caller is part of the text of
\* the filter expression, the className binding is the className of the
\* call whatever the fields are named, and so the scan returns records of
\* that className only.
C25_FilterParameterized ==
    Settled("findByFields") =>
        LET fields == call.arg[1]
            scan == call.arg[2]
            text == scan.FilterExpression
        IN /\ \A name \in DOMAIN fields : \A i \in DOMAIN text :
                /\ text[i] # name
                /\ text[i] # Placeholder(name)
                /\ text[i] # fields[name].v
           /\ scan.ExpressionAttributeValues[":className"] = Str(call.className)
           /\ \A i \in DOMAIN resp.val : resp.val[i].className = Str(call.className)

(***************************************************************************)
(* FileDB with callers that do not wait for one mutation to settle before  *)
(* they start the next (two requests being served): a mutation changes the *)
(* table and hands fs.writeFile the serialized table at once; the writes   *)
(* in flight complete in any order, each overwriting the file with its     *)
(* data.                                                                   *)
(***************************************************************************)

\* the number of fs.writeFile calls in flight
MaxWrites == 2

\* the synchronous part of a mutation that settled with r had no error:
\* the table is changed and, when rewriteDB was reached, the data of the
\* write is in flight
Started(r) ==
    /\ contents' = r.contents
    /\ writes' = IF r.resp.kind = "resolve" THEN Append(writes, r.file) ELSE writes

Mirror_create ==
    /\ backend = "file"
    /\ Len(contents) < MaxRecords
    /\ Len(writes) < MaxWrites
    /\ \E className \in ClassNames, entryData \in AttrObjects :
         Started(FileDB_create(contents, file, className, entryData, now, FALSE))
    /\ UNCHANGED <<backend, now, file, table, uuids, callVars, serverVars>>

Mirror_put ==
    /\ backend = "file"
    /\ Len(writes) < MaxWrites
    /\ \E className \in ClassNames : \E updateEntry \in FileUpdates(className) :
         Started(FileDB_put(contents, file, className, updateEntry, FALSE))
    /\ UNCHANGED <<backend, now, file, table, uuids, callVars, serverVars>>

Mirror_deleteById ==
    /\ backend = "file"
    /\ Len(writes) < MaxWrites
    /\ \E className \in ClassNames, id \in FileIds :
         Started(FileDB_deleteById(contents, file, className, id, FALSE))
    /\ UNCHANGED <<backend, now, file, table, uuids, callVars, serverVars>>

\* the callback of an fs.writeFile in flight: the file holds its data
WriteDone ==
    /\ \E i \in DOMAIN writes :
         /\ file' = writes[i]
         /\ writes' = Splice(writes, i)
    /\ UNCHANGED <<backend, now, contents, table, uuids, callVars, serverVars>>

NextMirror ==
    \/ Mirror_create
    \/ Mirror_put
    \/ Mirror_deleteById
    \/ WriteDone
    \/ Tick

SpecMirror == InitFile /\ [][NextMirror]_vars

\* C26: whatever the interleaving of create, put and deleteById and the
\* order in which their file writes complete, once every write issued has
\* completed the file holds the serialization of the in-memory table.
C26_FileMirror == writes = <<>> => file = Serialize(contents)

(***************************************************************************)
(* FileDB on a file system whose writes can fail: fs.writeFile calls its   *)
(* callback with an error, and the caller awaits each mutation.            *)
(***************************************************************************)
WriteFaults == {FALSE, TRUE}

Faulty_create ==
    /\ Idle
    /\ backend = "file"
    /\ Len(contents) < MaxRecords
    /\ \E className \in ClassNames, entryData \in AttrObjects, werr \in WriteFaults :
         LET r == FileDB_create(contents, file, className, entryData, now, werr)
         IN /\ contents' = r.contents
            /\ file' = r.file
            /\ resp' = r.resp
            /\ call' = Call("create", className, <<entryData>>)
    /\ UNCHANGED <<backend, now, table, uuids, serverVars, writes>>

Faulty_put ==
    /\ Idle
    /\ backend = "file"
    /\ \E className \in ClassNames, werr \in WriteFaults : \E updateEntry \in FileUpdates(className) :
         LET r == FileDB_put(contents, file, className, updateEntry, werr)
         IN /\ contents' = r.contents
            /\ file' = r.file
            /\ resp' = r.resp
            /\ call' = Call("put", className, <<updateEntry>>)
    /\ UNCHANGED <<backend, now, table, uuids, serverVars, writes>>

Faulty_deleteById ==
    /\ Idle
    /\ backend = "file"
    /\ \E className \in ClassNames, key \in FileIds, werr \in WriteFaults :
         LET r == FileDB_deleteById(contents, file, className, key, werr)
         IN /\ contents' = r.contents
            /\ file' = r.file
            /\ resp' = r.resp
            /\ call' = Call("deleteById", className, <<key>>)
    /\ UNCHANGED <<backend, now, table, uuids, serverVars, writes>>

NextFaulty ==
    \/ Faulty_create
    \/ Faulty_put
    \/ Faulty_deleteById
    \/ File_findAll
    \/ Return
    \/ Tick

SpecFaulty == InitFile /\ [][NextFaulty]_vars

\* the promise of the mutation was rejected with the error of fs.writeFile
WriteFailed(r) == r.kind = "reject" /\ r.shape = "error" /\ r.val = <<BackendErr>>

\* C28: when the file write of a create, put or deleteById fails, the
\* operation is rejected and the in-memory table is what it was before the
\* operation, so that later reads do not show the mutation.
C28_FailureAtomicity ==
    [][(call'.op \in {"create", "put", "deleteById"} /\ WriteFailed(resp')) =>
          contents' = contents]_vars

(***************************************************************************)
(* ReactServer.reset(session): a handler calls it and awaits the promise.  *)
(* The session store calls the callback of session.destroy in the end,     *)
(* with or without an error.                                               *)
(***************************************************************************)

\* the promise of reset has not settled
Pending == call.op = "reset" /\ resp.kind = "none"

\* reset(session): the executor calls session.destroy when there is a
\* session, and does nothing else
Reset ==
    /\ Idle
    /\ \E session \in {NoArg} \cup {ObjBody(s) : s \in Sessions} :
         call' = Call("reset", "", <<session>>)
    /\ resp' = NoResponse
    /\ UNCHANGED <<storeVars, serverVars, writes>>

\* the callback of session.destroy: reject(err) or resolve(true)
SessionDestroyed ==
    /\ Pending
    /\ call.arg[1].kind = "object"
    /\ \E err \in {FALSE, TRUE} :
         resp' = IF err THEN Reject("error", <<BackendErr>>) ELSE Resolve("boolean", <<JsTrue>>)
    /\ UNCHANGED <<storeVars, call, serverVars, writes>>

\* the handler that awaited the promise goes on
ResetReturn ==
    /\ call.op = "reset"
    /\ resp.kind # "none"
    /\ call' = Call("none", "", <<>>)
    /\ resp' = NoResponse
    /\ UNCHANGED <<storeVars, serverVars, writes>>

NextReset ==
    \/ Reset
    \/ SessionDestroyed
    \/ ResetReturn
    \/ Auth
    \/ Tick

SpecReset == Init /\ [][NextReset]_vars /\ WF_vars(SessionDestroyed) /\ WF_vars(ResetReturn)

\* C30: the promise reset returns settles in the end: with true when the
\* session was destroyed, with the error when it was not, and also when no
\* session was supplied.
C30_ResetSettles == Pending ~> (call.op = "reset" /\ resp.kind \in {"resolve", "reject"})

=============================================================================
